---- MODULE Spec2Model ----
(***************************************************************************)
(* A model of the product-performance scripts:                             *)
(*   - scripts/utils/random-string-generator.ts (the identifier helpers    *)
(*     and the session-unique generator), and                              *)
(*   - scripts/product-generator.ts (generateSheetProducts).               *)
(*                                                                         *)
(* Strings are sequences of one-character strings, so that formatting,     *)
(* parsing, concatenation and length are computed and not assumed.         *)
(* A function that may throw returns [ok, val, err].                       *)
(***************************************************************************)
EXTENDS Integers, Sequences, FiniteSets, TLC

VARIABLES
    used,       \* UniqueStringGenerator.used of the default instance
    returned,   \* history: what generate returned since construction / the last reset
    now,        \* the wall clock read by Date.now(): [sec, ms]
    ticks,      \* how often the clock advanced (bounds the run)
    last,       \* the outcome of the last operation on the generator
    call        \* the outcome of the last call of a stateless function

vars == <<used, returned, now, ticks, last, call>>

(***************************************************************************)
(* Bounds of the model.                                                    *)
(***************************************************************************)
MaxCalls == 3       \* strings returned by generate between two resets
MaxTicks == 1       \* clock advances
MaxCount == 2       \* count of generateMultipleUniqueStrings
MaxProducts == 2    \* numProducts is -1..MaxProducts
MaxVariants == 2    \* variantsPerProduct is -1..MaxVariants, or about the total
NumWidths == 2      \* widths of the bounded size catalog
NumLengths == 2     \* lengths of the bounded size catalog
NumColors == 2      \* colors of the bounded catalog
NumHeights == 2     \* heights of the bounded catalog
MaxSheetSets == 13  \* numProducts of a series of small products: past the 12 sheet types
MaxLength == 8      \* length of the strings of the stateless helpers is -1..MaxLength

(***************************************************************************)
(* Strings.                                                                *)
(***************************************************************************)
DIGITS == <<"0","1","2","3","4","5","6","7","8","9">>

Range(s) == { s[i] : i \in 1..Len(s) }

PairwiseDistinct(s) == \A i, j \in 1..Len(s) : i # j => s[i] # s[j]

\* String(n) of an integer n
RECURSIVE NumberToString(_)
NumberToString(n) ==
    IF n < 0 THEN <<"-">> \o NumberToString(-n)
    ELSE IF n < 10 THEN <<DIGITS[n + 1]>>
    ELSE NumberToString(n \div 10) \o <<DIGITS[(n % 10) + 1]>>

IsDigit(c) == \E d \in 1..10 : DIGITS[d] = c

Ok(v) == [ok |-> TRUE, val |-> v, err |-> ""]
Throw(e) == [ok |-> FALSE, val |-> <<>>, err |-> e]

(***************************************************************************)
(* crypto.randomBytes and Date.now: the environment.                       *)
(***************************************************************************)
\* The buffers randomBytes may return are sampled: byte i of the buffer that
\* starts at seed is seed + i (mod 256).  Seeds 0 and 62 give different
\* buffers that the modulo reduction maps to the same string.
Seeds == {0, 62}

randomBytes(size, seed) ==
    IF size < 0 THEN Throw("RangeError")
    ELSE Ok([i \in 1..size |-> (seed + i - 1) % 256])

\* The clock at the start of the run; Date.now() is sec * 1000 + ms.
EpochSec == 1729123456
EpochMs == 999

\* `${Date.now()}`: the decimal digits of sec * 1000 + ms
TimestampToString(t) ==
    NumberToString(t.sec)
        \o <<DIGITS[(t.ms \div 100) + 1], DIGITS[((t.ms \div 10) % 10) + 1],
             DIGITS[(t.ms % 10) + 1]>>

(***************************************************************************)
(* random-string-generator.ts                                              *)
(***************************************************************************)
ALPHANUMERIC ==
    <<"A","B","C","D","E","F","G","H","I","J","K","L","M","N","O","P","Q","R",
      "S","T","U","V","W","X","Y","Z","a","b","c","d","e","f","g","h","i","j",
      "k","l","m","n","o","p","q","r","s","t","u","v","w","x","y","z","0","1",
      "2","3","4","5","6","7","8","9">>

generateSecureRandomString(length, seed) ==
    LET charset == ALPHANUMERIC
        bytes == randomBytes(length, seed)
    IN  IF ~bytes.ok THEN bytes
        ELSE Ok([i \in 1..length |-> charset[(bytes.val[i] % Len(charset)) + 1]])

generateShortUniqueId(length, seed, t) ==
    LET timestamp == TimestampToString(t)
        randomPart == generateSecureRandomString(length, seed)
    IN  IF ~randomPart.ok THEN randomPart
        ELSE Ok(timestamp \o <<"_">> \o randomPart.val)

\* The random draws of one generate call come in two runs: the first
\* oracle.k draws return the buffer seeded oracle.s, every later draw (the
\* fallback's too) the buffer seeded oracle.s + 1.
DrawSeed(oracle, attempt) == IF attempt < oracle.k THEN oracle.s ELSE oracle.s + 1

UsedHasNever(usedSet, candidate) == FALSE

UsedHas(usedSet, candidate) == candidate \in usedSet

UsedAddDropped(usedSet, s) == usedSet

UsedAdd(usedSet, s) == usedSet \cup {s}

\* UniqueStringGenerator.generate: [used, res, path, attempts]; path is where
\* the call ended, res.ok whether it returned.  The for loop ends at the first
\* attempt whose candidate cannot be drawn (randomBytes throws) or is not in
\* the set.  The candidates of one run of draws are equal, so the loop ends at
\* the first attempt of a run or passes the whole run.
generate(usedSet, length, maxAttempts, oracle, t) ==
    LET first == generateSecureRandomString(length, DrawSeed(oracle, 0))
        later == generateSecureRandomString(length, DrawSeed(oracle, oracle.k))
        EndsLoop(candidate) == ~candidate.ok \/ ~UsedHas(usedSet, candidate.val)
        runs == IF 0 < oracle.k /\ 0 < maxAttempts THEN {0} ELSE {}
        rest == IF oracle.k < maxAttempts THEN {oracle.k} ELSE {}
        ends == { a \in runs : EndsLoop(first) } \cup { a \in rest : EndsLoop(later) }
    IN  IF ends # {}
        THEN LET attempt == CHOOSE a \in ends : \A b \in ends : a <= b
                 candidate == IF attempt < oracle.k THEN first ELSE later
             IN  IF ~candidate.ok
                 THEN [used |-> usedSet, res |-> candidate, path |-> "loop",
                       attempts |-> attempt + 1]
                 ELSE [used |-> UsedAdd(usedSet, candidate.val), res |-> candidate,
                       path |-> "loop", attempts |-> attempt + 1]
        ELSE LET attempts == IF maxAttempts > 0 THEN maxAttempts ELSE 0
                 fallback == generateShortUniqueId(length - 13,
                                                   DrawSeed(oracle, attempts), t)
             IN  IF ~fallback.ok
                 THEN [used |-> usedSet, res |-> fallback, path |-> "fallback",
                       attempts |-> attempts]
                 ELSE [used |-> UsedAdd(usedSet, fallback.val), res |-> fallback,
                       path |-> "fallback", attempts |-> attempts]

DefaultMaxAttempts == 100

resetKeeps(usedSet) == usedSet

reset(usedSet) == {}

getCount == Cardinality(used)

\* generateSessionUniqueString: generate on the default instance
generateSessionUniqueString(usedSet, length, oracle, t) ==
    generate(usedSet, length, DefaultMaxAttempts, oracle, t)

\* generateMultipleUniqueStrings: [used, ok, results, runs]; runs are the
\* outcomes of the generate calls made, the last one a throw when ok is FALSE
RECURSIVE generateMultipleFrom(_, _, _, _, _, _, _, _)
generateMultipleFrom(usedSet, count, length, i, results, runs, oracles, t) ==
    IF i < count
    THEN LET r == generateSessionUniqueString(usedSet, length, oracles[i + 1], t)
         IN  IF ~r.res.ok
             THEN [used |-> r.used, ok |-> FALSE, results |-> results,
                   runs |-> Append(runs, r)]
             ELSE generateMultipleFrom(r.used, count, length, i + 1,
                                       Append(results, r.res.val),
                                       Append(runs, r), oracles, t)
    ELSE [used |-> usedSet, ok |-> TRUE, results |-> results, runs |-> runs]

generateMultipleUniqueStrings(usedSet, count, length, oracles, t) ==
    generateMultipleFrom(usedSet, count, length, 0, <<>>, <<>>, oracles, t)

(***************************************************************************)
(* String operations of the product generator.                             *)
(***************************************************************************)
UPPERCASE ==
    <<"A","B","C","D","E","F","G","H","I","J","K","L","M","N","O","P","Q","R",
      "S","T","U","V","W","X","Y","Z">>
LOWERCASE ==
    <<"a","b","c","d","e","f","g","h","i","j","k","l","m","n","o","p","q","r",
      "s","t","u","v","w","x","y","z">>

IndexOf(table, c) ==
    IF \E i \in 1..Len(table) : table[i] = c
    THEN CHOOSE i \in 1..Len(table) : table[i] = c
    ELSE 0

\* the UTF-16 code unit of a character (the characters of the catalogs:
\* letters, digits and the space)
CharCode(c) ==
    IF IndexOf(UPPERCASE, c) > 0 THEN 64 + IndexOf(UPPERCASE, c)
    ELSE IF IndexOf(LOWERCASE, c) > 0 THEN 96 + IndexOf(LOWERCASE, c)
    ELSE IF IndexOf(DIGITS, c) > 0 THEN 47 + IndexOf(DIGITS, c)
    ELSE 32

UpperOf == [c \in Range(LOWERCASE) |-> UPPERCASE[IndexOf(LOWERCASE, c)]]
LowerOf == [c \in Range(UPPERCASE) |-> LOWERCASE[IndexOf(UPPERCASE, c)]]

toUpperCase(str) ==
    [i \in 1..Len(str) |-> IF str[i] \in DOMAIN UpperOf THEN UpperOf[str[i]] ELSE str[i]]

toLowerCaseSkipped(str) == str

toLowerCase(str) ==
    [i \in 1..Len(str) |-> IF str[i] \in DOMAIN LowerOf THEN LowerOf[str[i]] ELSE str[i]]

IsWhitespace(c) == c = " "

\* str.replace(/\s+/g, by): every maximal run of whitespace becomes by
RECURSIVE ReplaceWhitespaceRuns(_, _)
ReplaceWhitespaceRuns(str, by) ==
    IF str = <<>> THEN <<>>
    ELSE IF ~IsWhitespace(Head(str))
    THEN <<Head(str)>> \o ReplaceWhitespaceRuns(Tail(str), by)
    ELSE IF Len(str) > 1 /\ IsWhitespace(str[2])
    THEN ReplaceWhitespaceRuns(Tail(str), by)
    ELSE by \o ReplaceWhitespaceRuns(Tail(str), by)

\* the first index at which pattern occurs in str, 0 if it does not
Search(str, pattern) ==
    LET at == { i \in 1..(Len(str) - Len(pattern) + 1) :
                  SubSeq(str, i, i + Len(pattern) - 1) = pattern }
    IN  IF at = {} THEN 0 ELSE CHOOSE i \in at : \A j \in at : i <= j

\* str.replace(pattern, by) for a string pattern: the first occurrence only
ReplaceFirst(str, pattern, by) ==
    LET i == Search(str, pattern)
    IN  IF i = 0 THEN str
        ELSE SubSeq(str, 1, i - 1) \o by \o SubSeq(str, i + Len(pattern), Len(str))

\* str.split("x") for a one-character separator
RECURSIVE Split(_, _)
Split(str, sep) ==
    LET i == Search(str, <<sep>>)
    IN  IF i = 0 THEN <<str>>
        ELSE <<SubSeq(str, 1, i - 1)>> \o Split(SubSeq(str, i + 1, Len(str)), sep)

\* Number(str) and parseInt(str) of a string of decimal digits
RECURSIVE ParseNumber(_)
ParseNumber(str) ==
    IF str = <<>> THEN 0
    ELSE 10 * ParseNumber(SubSeq(str, 1, Len(str) - 1))
            + (IndexOf(DIGITS, str[Len(str)]) - 1)

\* the default comparison of Array.prototype.sort: by code units
RECURSIVE StringLess(_, _)
StringLess(a, b) ==
    IF b = <<>> THEN FALSE
    ELSE IF a = <<>> THEN TRUE
    ELSE IF Head(a) # Head(b) THEN CharCode(Head(a)) < CharCode(Head(b))
    ELSE StringLess(Tail(a), Tail(b))

\* [...new Set(arr)]: the distinct elements in the order they first appear,
\* those of arr[lo..hi] being those of the first half followed by the new
\* ones of the second half
RECURSIVE UniqueOf(_, _, _)
UniqueOf(arr, lo, hi) ==
    IF lo > hi THEN <<>>
    ELSE IF lo = hi THEN <<arr[lo]>>
    ELSE LET mid == (lo + hi) \div 2
             left == UniqueOf(arr, lo, mid)
             right == UniqueOf(arr, mid + 1, hi)
             IsNew(x) == x \notin Range(left)
         IN  left \o SelectSeq(right, IsNew)

Unique(arr) == UniqueOf(arr, 1, Len(arr))

\* arr.slice(start, end)
Slice(arr, start, end) ==
    LET len == Len(arr)
        from == IF start < 0 THEN (IF len + start < 0 THEN 0 ELSE len + start)
                ELSE (IF start > len THEN len ELSE start)
        to == IF end < 0 THEN (IF len + end < 0 THEN 0 ELSE len + end)
              ELSE (IF end > len THEN len ELSE end)
    IN  SubSeq(arr, from + 1, to)

Min(a, b) == IF a < b THEN a ELSE b

(***************************************************************************)
(* Math.random: the environment of the product generator.                  *)
(***************************************************************************)
\* The j-th Math.random() of a call, in quarters: (seed + j) mod 4 quarters
Random(seed, j) == (seed + j) % 4

\* Math.floor(Math.random() * scale + offset) for integers scale and offset
FloorRandom(seed, j, scale, offset) == ((Random(seed, j) * scale) \div 4) + offset

generateRandomStringOfAnyClass(length, includeUppercase, includeLowercase, includeNumbers, seed, j) ==
    IF ~(includeUppercase \/ includeLowercase \/ includeNumbers) THEN Throw("Error")
    ELSE Ok([i \in 1..length |->
                (UPPERCASE \o LOWERCASE \o DIGITS)[FloorRandom(seed, j + i - 1, 62, 0) + 1]])

\* generateRandomString; draws start at the j-th Math.random() of the call
generateRandomString(length, includeUppercase, includeLowercase, includeNumbers, seed, j) ==
    LET uppercase == UPPERCASE
        lowercase == LOWERCASE
        numbers == DIGITS
        charset == (IF includeUppercase THEN uppercase ELSE <<>>)
                     \o (IF includeLowercase THEN lowercase ELSE <<>>)
                     \o (IF includeNumbers THEN numbers ELSE <<>>)
    IN  IF charset = <<>> THEN Throw("Error")
        ELSE Ok([i \in 1..length |->
                    charset[FloorRandom(seed, j + i - 1, Len(charset), 0) + 1]])

\* Buffer.toString("hex"): two lowercase hexadecimal digits per byte
HEXDIGITS ==
    <<"0","1","2","3","4","5","6","7","8","9","a","b","c","d","e","f">>

toHex(bytes) ==
    [k \in 1..(2 * Len(bytes)) |->
        LET byte == bytes[((k - 1) \div 2) + 1]
        IN  HEXDIGITS[(IF k % 2 = 1 THEN byte \div 16 ELSE byte % 16) + 1]]

generateHexStringUnchecked(length, seed) ==
    LET bytes == randomBytes(length \div 2, seed)
    IN  IF ~bytes.ok THEN bytes ELSE Ok(toHex(bytes.val))

\* generateHexString: length / 2 is an integer once the parity test passed
generateHexString(length, seed) ==
    IF length % 2 # 0 THEN Throw("Error")
    ELSE LET bytes == randomBytes(length \div 2, seed)
         IN  IF ~bytes.ok THEN bytes ELSE Ok(toHex(bytes.val))

\* Buffer.toString("base64"): four characters per group of three bytes, the
\* last group padded with "=" when it has one or two bytes
BASE64 == UPPERCASE \o LOWERCASE \o DIGITS \o <<"+", "/">>

toBase64(bytes) ==
    LET n == Len(bytes)
        ByteAt(i) == IF i <= n THEN bytes[i] ELSE 0
    IN  [k \in 1..(4 * ((n + 2) \div 3)) |->
            LET g == (k - 1) \div 4
                bits == ByteAt(3 * g + 1) * 65536 + ByteAt(3 * g + 2) * 256
                            + ByteAt(3 * g + 3)
                pos == (k - 1) % 4
                sextet == CASE pos = 0 -> bits \div 262144
                            [] pos = 1 -> (bits \div 4096) % 64
                            [] pos = 2 -> (bits \div 64) % 64
                            [] pos = 3 -> bits % 64
                \* the character at pos is data when the group has pos bytes or more
                present == pos = 0 \/ 3 * g + pos <= n
            IN  IF present THEN BASE64[sextet + 1] ELSE "="]

\* str.substring(0, end): a negative end counts as 0
Substring(str, end) ==
    SubSeq(str, 1, IF end < 0 THEN 0 ELSE IF end > Len(str) THEN Len(str) ELSE end)

\* Math.ceil(a / 4) for an integer a
CeilQuarter(a) == -((-a) \div 4)

generateBase64StringOfFewerBytes(length, seed) ==
    LET bytes == randomBytes((length * 3) \div 4, seed)
    IN  IF ~bytes.ok THEN bytes ELSE Ok(Substring(toBase64(bytes.val), length))

generateBase64String(length, seed) ==
    LET bytes == randomBytes(CeilQuarter(length * 3), seed)
    IN  IF ~bytes.ok THEN bytes ELSE Ok(Substring(toBase64(bytes.val), length))

\* generateCustomRandomString; draws start at the j-th Math.random() of the call
generateCustomRandomString(length, charset, seed, j) ==
    IF Len(charset) = 0 THEN Throw("Error")
    ELSE Ok([i \in 1..length |->
                charset[FloorRandom(seed, j + i - 1, Len(charset), 0) + 1]])

\* for (x = from; x <= to; x += step) push(x)
Pushed(from, to, step) ==
    [k \in 1..(IF to < from THEN 0 ELSE ((to - from) \div step) + 1) |->
        from + step * (k - 1)]

PushedBelow(from, to, step) == Pushed(from, to - 1, step)

calculateSheetCombinationsOfOpenRanges ==
    LET widths == PushedBelow(70, 220, 10)
        lengths == PushedBelow(180, 240, 10)
    IN  [widths |-> Len(widths), lengths |-> Len(lengths),
         sizes |-> Len(widths) * Len(lengths), colors |-> 50, heights |-> 12,
         totalCombinations |-> Len(widths) * Len(lengths) * 50 * 12]

calculateSheetCombinations ==
    LET widths == Pushed(70, 220, 10)
        lengths == Pushed(180, 240, 10)
        numSizes == Len(widths) * Len(lengths)
        numColors == 50
        numHeights == 12
        totalCombinations == numSizes * numColors * numHeights
    IN  [widths |-> Len(widths),
         lengths |-> Len(lengths),
         sizes |-> numSizes,
         colors |-> numColors,
         heights |-> numHeights,
         totalCombinations |-> totalCombinations,
         details |->
            [widthRange |-> NumberToString(widths[1]) \o <<"-">>
                                \o NumberToString(widths[Len(widths)]),
             lengthRange |-> NumberToString(lengths[1]) \o <<"-">>
                                \o NumberToString(lengths[Len(lengths)]),
             sizeExamples |->
                << NumberToString(widths[1]) \o <<"x">> \o NumberToString(lengths[1]),
                   NumberToString(widths[(Len(widths) \div 2) + 1]) \o <<"x">>
                       \o NumberToString(lengths[(Len(lengths) \div 2) + 1]),
                   NumberToString(widths[Len(widths)]) \o <<"x">>
                       \o NumberToString(lengths[Len(lengths)]) >>]]

(***************************************************************************)
(* product-generator.ts                                                    *)
(***************************************************************************)
\* for (width = 70; width <= maxWidth; width += 10)
\*   for (length = 180; length <= maxLength; length += 10)
sizesUpTo(maxWidth, maxLength) ==
    LET widths == IF maxWidth < 70 THEN 0 ELSE ((maxWidth - 70) \div 10) + 1
        lengths == IF maxLength < 180 THEN 0 ELSE ((maxLength - 180) \div 10) + 1
    IN  [k \in 1..(widths * lengths) |->
            NumberToString(70 + 10 * ((k - 1) \div lengths))
                \o <<"x">> \o NumberToString(180 + 10 * ((k - 1) % lengths))]

sizes == sizesUpTo(220, 240)

colors ==
    << <<"W","h","i","t","e">>,
       <<"C","r","e","a","m">>,
       <<"L","i","g","h","t"," ","B","l","u","e">>,
       <<"S","a","g","e"," ","G","r","e","e","n">>,
       <<"S","o","f","t"," ","P","i","n","k">>,
       <<"C","h","a","r","c","o","a","l">>,
       <<"N","a","v","y">>,
       <<"B","u","r","g","u","n","d","y">>,
       <<"L","a","v","e","n","d","e","r">>,
       <<"M","i","n","t"," ","G","r","e","e","n">>,
       <<"D","u","s","t","y"," ","R","o","s","e">>,
       <<"S","t","o","n","e"," ","G","r","a","y">>,
       <<"I","v","o","r","y">>,
       <<"P","e","a","r","l">>,
       <<"S","i","l","v","e","r">>,
       <<"P","l","a","t","i","n","u","m">>,
       <<"C","h","a","m","p","a","g","n","e">>,
       <<"B","e","i","g","e">>,
       <<"T","a","u","p","e">>,
       <<"M","o","c","h","a">>,
       <<"E","s","p","r","e","s","s","o">>,
       <<"B","l","a","c","k">>,
       <<"M","i","d","n","i","g","h","t"," ","B","l","u","e">>,
       <<"R","o","y","a","l"," ","B","l","u","e">>,
       <<"T","e","a","l">>,
       <<"F","o","r","e","s","t"," ","G","r","e","e","n">>,
       <<"O","l","i","v","e">>,
       <<"R","o","s","e"," ","G","o","l","d">>,
       <<"B","l","u","s","h">>,
       <<"C","o","r","a","l">>,
       <<"P","e","a","c","h">>,
       <<"A","p","r","i","c","o","t">>,
       <<"S","u","n","s","h","i","n","e">>,
       <<"G","o","l","d","e","n">>,
       <<"A","m","b","e","r">>,
       <<"R","u","s","t">>,
       <<"T","e","r","r","a","c","o","t","t","a">>,
       <<"B","r","i","c","k"," ","R","e","d">>,
       <<"W","i","n","e">>,
       <<"P","l","u","m">>,
       <<"E","g","g","p","l","a","n","t">>,
       <<"V","i","o","l","e","t">>,
       <<"L","i","l","a","c">>,
       <<"P","e","r","i","w","i","n","k","l","e">>,
       <<"S","k","y"," ","B","l","u","e">>,
       <<"A","q","u","a">>,
       <<"T","u","r","q","u","o","i","s","e">>,
       <<"S","e","a","f","o","a","m">>,
       <<"J","a","d","e">>,
       <<"E","m","e","r","a","l","d">> >>

heights ==
    << <<"2","0","c","m">>,
       <<"2","2","c","m">>,
       <<"2","5","c","m">>,
       <<"2","7","c","m">>,
       <<"3","0","c","m">>,
       <<"3","2","c","m">>,
       <<"3","5","c","m">>,
       <<"3","7","c","m">>,
       <<"4","0","c","m">>,
       <<"4","2","c","m">>,
       <<"4","5","c","m">>,
       <<"5","0","c","m">> >>

sheetTypes ==
    << <<"E","g","y","p","t","i","a","n"," ","C","o","t","t","o","n">>,
       <<"B","a","m","b","o","o">>,
       <<"L","i","n","e","n">>,
       <<"P","e","r","c","a","l","e">>,
       <<"S","a","t","e","e","n">>,
       <<"J","e","r","s","e","y">>,
       <<"F","l","a","n","n","e","l">>,
       <<"M","i","c","r","o","f","i","b","e","r">>,
       <<"S","i","l","k">>,
       <<"O","r","g","a","n","i","c"," ","C","o","t","t","o","n">>,
       <<"T","e","n","c","e","l">>,
       <<"H","e","m","p">> >>

sheetDescriptions ==
    << "Premium Egyptian cotton bed sheet set. Experience luxury and comfort with our long-staple cotton sheets, known for their exceptional softness and durability.",
       "Eco-friendly bamboo bed sheet set. Naturally antibacterial and moisture-wicking, perfect for sensitive skin and temperature regulation.",
       "100% pure linen bed sheet set. Breathable and naturally textured, offering a relaxed, lived-in luxury that gets softer with every wash.",
       "Crisp percale weave bed sheet set. Cool and breathable with a hotel-like feel, perfect for warm sleepers who prefer a crisp finish.",
       "Silky sateen weave bed sheet set. Lustrous and smooth with a subtle sheen, offering a luxurious drape and elegant appearance.",
       "Soft jersey knit bed sheet set. Stretchy and cozy like your favorite t-shirt, providing ultimate comfort and easy care.",
       "Cozy flannel bed sheet set. Brushed for extra warmth and softness, perfect for cooler months and creating a warm, inviting bed.",
       "Ultra-soft microfiber bed sheet set. Wrinkle-resistant and easy-care, offering comfort and convenience at an affordable price.",
       "Luxurious mulberry silk bed sheet set. Temperature-regulating and hypoallergenic, providing the ultimate in luxury bedding.",
       "Certified organic cotton bed sheet set. Grown without harmful chemicals, offering pure comfort that's gentle on you and the environment.",
       "Sustainable Tencel bed sheet set. Made from eucalyptus fibers, naturally cooling and moisture-wicking with a silky-smooth feel.",
       "Durable hemp bed sheet set. Naturally antimicrobial and environmentally friendly, becoming softer and more comfortable over time." >>

images ==
    << [url |-> "https://res.cloudinary.com/do9lggzv1/image/fetch/c_limit,w_3840/f_auto/q_auto/v1/https://sadrlmedusaprod.blob.core.windows.net/medusaprod/medusaprod/produktbilleder/unikka/hmkuv0902007hb.jpg?_a=BAVAZGE70"],
       [url |-> "https://res.cloudinary.com/do9lggzv1/image/fetch/c_limit,w_3840/f_auto/q_auto/v1/https://sadrlmedusaprod.blob.core.windows.net/medusaprod/medusaprod/produktbilleder/unikka/hmkuv0902007blb.jpg?_a=BAVAZGE70"],
       [url |-> "https://res.cloudinary.com/do9lggzv1/image/fetch/c_limit,w_3840/f_auto/q_auto/v1/https://sadrlmedusaprod.blob.core.windows.net/medusaprod/medusaprod/produktbilleder/hmkuv0902007lgb.jpg?_a=BAVAZGE70"] >>

\* The option catalogs cut to their first entries: the widths and lengths of
\* the size loop, the first colors, the first heights.
catalog ==
    [sizes |-> sizesUpTo(70 + 10 * (NumWidths - 1), 180 + 10 * (NumLengths - 1)),
     colors |-> SubSeq(colors, 1, NumColors),
     heights |-> SubSeq(heights, 1, NumHeights)]

totalPossibleCombinations(cat) == Len(cat.sizes) * Len(cat.colors) * Len(cat.heights)

\* allCombinations: for size, for color, for height: push {Size, Color, Height}
allCombinations(cat) ==
    LET perSize == Len(cat.colors) * Len(cat.heights)
    IN  [c \in 1..totalPossibleCombinations(cat) |->
            [Size |-> cat.sizes[((c - 1) \div perSize) + 1],
             Color |-> cat.colors[(((c - 1) \div Len(cat.heights)) % Len(cat.colors)) + 1],
             Height |-> cat.heights[((c - 1) % Len(cat.heights)) + 1]]]

\* allCombinations.sort(() => Math.random() - 0.5): the permutation the random
\* comparator leaves, sampled among j -> stride * j + offset (mod n) with
\* stride and n coprime; product i of a call is shuffled with offset + i
ShuffleIndexRepeats(n, shuffle, j) == shuffle.offset % n

ShuffleIndex(n, shuffle, j) == (shuffle.stride * j + shuffle.offset) % n

RECURSIVE Gcd(_, _)
Gcd(a, b) == IF b = 0 THEN a ELSE Gcd(b, a % b)

Shuffles(n) ==
    [stride : { a \in {1, n - 1} : a >= 1 /\ Gcd(a, n) = 1 }, offset : {0}]

shuffled(arr, shuffle) ==
    [j \in 1..Len(arr) |-> arr[ShuffleIndex(Len(arr), shuffle, j - 1) + 1]]

SizeLessWidthOnly(a, b) ==
    LET aW == ParseNumber(Split(a, "x")[1])
        bW == ParseNumber(Split(b, "x")[1])
    IN  aW - bW < 0

\* (a, b) => aW === bW ? aH - bH : aW - bW, negative
SizeLess(a, b) ==
    LET aW == ParseNumber(Split(a, "x")[1])
        aH == ParseNumber(Split(a, "x")[2])
        bW == ParseNumber(Split(b, "x")[1])
        bH == ParseNumber(Split(b, "x")[2])
    IN  (IF aW = bW THEN aH - bH ELSE aW - bW) < 0

\* (a, b) => parseInt(a.replace("cm", "")) - parseInt(b.replace("cm", "")), negative
HeightLess(a, b) ==
    LET aNum == ParseNumber(ReplaceFirst(a, <<"c","m">>, <<>>))
        bNum == ParseNumber(ReplaceFirst(b, <<"c","m">>, <<>>))
    IN  aNum - bNum < 0

\* compare(a, b) < 0 for the comparators of the three sorts: of the sizes, of
\* the colors (the default comparison) and of the heights
Less(compare, a, b) ==
    CASE compare = "Size" -> SizeLess(a, b)
      [] compare = "Color" -> StringLess(a, b)
      [] compare = "Height" -> HeightLess(a, b)

\* arr.sort(compare) as a stable insertion sort
RECURSIVE Insert(_, _, _)
Insert(compare, sorted, x) ==
    IF sorted = <<>> THEN <<x>>
    ELSE IF Less(compare, x, sorted[Len(sorted)])
    THEN Append(Insert(compare, SubSeq(sorted, 1, Len(sorted) - 1), x),
                sorted[Len(sorted)])
    ELSE Append(sorted, x)

RECURSIVE Sort(_, _)
Sort(compare, arr) ==
    IF arr = <<>> THEN <<>>
    ELSE Insert(compare, Sort(compare, SubSeq(arr, 1, Len(arr) - 1)), arr[Len(arr)])

\* a || b for an id that may be undefined (<<>>) or the empty string
Truthy(id) == id # <<>> /\ id[1] # ""
OrElse(a, b) == IF Truthy(a) THEN a ELSE b

FindIdOfFirst(categoryResult, name) ==
    IF categoryResult = <<>> THEN <<>> ELSE <<categoryResult[1].id>>

\* categoryResult.find((cat) => cat.name === name)?.id
FindId(categoryResult, name) ==
    LET at == { i \in 1..Len(categoryResult) : categoryResult[i].name = name }
    IN  IF at = {} THEN <<>>
        ELSE <<categoryResult[CHOOSE i \in at : \A j \in at : i <= j].id>>

FirstChannelIdUnchecked(defaultSalesChannel) ==
    IF defaultSalesChannel = <<>> THEN Ok("") ELSE Ok(defaultSalesChannel[1].id)

\* defaultSalesChannel[0].id
FirstChannelId(defaultSalesChannel) ==
    IF defaultSalesChannel = <<>> THEN Throw("TypeError") ELSE Ok(defaultSalesChannel[1].id)

AmountAtMin(seed, j, priceRange) == priceRange.min - 1

\* Math.floor(Math.random() * (priceRange.max - priceRange.min) + priceRange.min)
Amount(seed, j, priceRange) ==
    FloorRandom(seed, j, priceRange.max - priceRange.min, priceRange.min)

\* one variant of product i; its draws start at the j-th Math.random()
Variant(sheetType, combination, currencies, priceRange, seed, j) ==
    LET randomSuffix == generateRandomString(8, TRUE, TRUE, TRUE, seed, j).val
        variantSku ==
            <<"S","H","E","E","T","-">>
                \o toUpperCase(ReplaceWhitespaceRuns(sheetType, <<>>)) \o <<"-">>
                \o ReplaceFirst(combination.Size, <<"x">>, <<"X">>) \o <<"-">>
                \o toUpperCase(ReplaceWhitespaceRuns(combination.Color, <<>>)) \o <<"-">>
                \o ReplaceFirst(combination.Height, <<"c","m">>, <<"C","M">>) \o <<"-">>
                \o randomSuffix
        prices == [c \in 1..Len(currencies) |->
                      [amount |-> Amount(seed, j + 8 + c - 1, priceRange),
                       currency_code |-> currencies[c]]]
    IN  [title |-> combination.Size \o <<" ","/"," ">> \o combination.Color
                      \o <<" ","/"," ">> \o combination.Height,
         sku |-> variantSku,
         options |-> combination,
         prices |-> prices]

HandleSaltDrawn(options, oracle) == oracle.seed

\* ${options.handleId}: the salt of a handle is the caller's, nothing is drawn
HandleSalt(options, oracle) == options.handleId

\* one iteration of the product loop, i from 0
Product(i, options, categoryResult, shippingProfile, defaultSalesChannel, cat, oracle) ==
    LET priceRange == IF options.priceRange = <<>> THEN [min |-> 20, max |-> 80]
                      ELSE options.priceRange[1]
        currencies == IF options.currencies = <<>> THEN <<"eur", "usd">>
                      ELSE options.currencies[1]
        sheetType == sheetTypes[(i % Len(sheetTypes)) + 1]
        productNumber == i + 1
        all == allCombinations(cat)
        maxVariants == Min(options.variantsPerProduct, Len(all))
        shuffle == [stride |-> oracle.stride, offset |-> oracle.offset + i]
        shuffledCombinations == Slice(shuffled(all, shuffle), 0, maxVariants)
        draws == 8 + Len(currencies)
        first == i * (Len(all) * draws + 1)
        variants == [v \in 1..Len(shuffledCombinations) |->
                        Variant(sheetType, shuffledCombinations[v], currencies,
                                priceRange, oracle.seed, first + (v - 1) * draws)]
        uniqueSizes == Unique([v \in 1..Len(shuffledCombinations) |->
                                  shuffledCombinations[v].Size])
        uniqueColors == Unique([v \in 1..Len(shuffledCombinations) |->
                                   shuffledCombinations[v].Color])
        uniqueHeights == Unique([v \in 1..Len(shuffledCombinations) |->
                                    shuffledCombinations[v].Height])
        categoryId == OrElse(OrElse(FindId(categoryResult, "Sheets"),
                                    FindId(categoryResult, "Bedding")),
                             IF categoryResult = <<>> THEN <<>>
                             ELSE <<categoryResult[1].id>>)
        channel == FirstChannelId(defaultSalesChannel)
    IN  IF ~channel.ok THEN channel
        ELSE Ok(
                [title |-> sheetType \o <<" ","B","e","d"," ","S","h","e","e","t",
                                          " ","S","e","t"," ">>
                              \o NumberToString(productNumber),
                 category_ids |-> IF Truthy(categoryId) THEN <<categoryId[1]>> ELSE <<>>,
                 description |-> sheetDescriptions[(i % Len(sheetTypes)) + 1],
                 handle |-> ReplaceWhitespaceRuns(toLowerCase(sheetType), <<"-">>)
                               \o <<"-","s","h","e","e","t","-","s","e","t","-">>
                               \o NumberToString(productNumber) \o <<"-">>
                               \o NumberToString(HandleSalt(options, oracle)),
                 weight |-> FloorRandom(oracle.seed, first + Len(all) * draws, 400, 600),
                 status |-> "published",
                 shipping_profile_id |-> shippingProfile.id,
                 images |-> images,
                 options |-> << [title |-> "Size", values |-> Sort("Size", uniqueSizes)],
                                [title |-> "Color", values |-> Sort("Color", uniqueColors)],
                                [title |-> "Height", values |-> Sort("Height", uniqueHeights)] >>,
                 variants |-> variants,
                 sales_channels |-> << [id |-> channel.val] >>])

\* generateSheetProducts: the products, or the error of the first iteration,
\* which throws when there is no sales channel to read the id of
generateSheetProducts(options, categoryResult, shippingProfile, defaultSalesChannel, cat, oracle) ==
    IF options.numProducts > 0 /\ ~FirstChannelId(defaultSalesChannel).ok
    THEN FirstChannelId(defaultSalesChannel)
    ELSE Ok([n \in 1..options.numProducts |->
                Product(n - 1, options, categoryResult, shippingProfile,
                        defaultSalesChannel, cat, oracle).val])

(***************************************************************************)
(* The generator's operations.                                             *)
(***************************************************************************)
\* The lengths asked for: a negative one, the empty string, and the length
\* whose fallback has an empty random part.  The budgets: none, one attempt,
\* the default.
Lengths == {-1, 0, 13}
AttemptBudgets == {0, 1, DefaultMaxAttempts}
Oracles(maxAttempts) ==
    [k : {0, 1, maxAttempts} \cap (0..maxAttempts), s : Seeds]

NoCall == [op |-> "none"]

Entry(r, length, maxAttempts) == [value |-> r.res.val, path |-> r.path]

\* what one generate call leaves behind: the returned string is logged
Logged(log, r, length, maxAttempts) ==
    IF r.res.ok THEN Append(log, Entry(r, length, maxAttempts)) ELSE log

RECURSIVE LoggedAll(_, _, _, _)
LoggedAll(log, runs, length, i) ==
    IF i > Len(runs) THEN log
    ELSE LoggedAll(Logged(log, runs[i], length, DefaultMaxAttempts), runs, length, i + 1)

Init ==
    /\ used = {}
    /\ returned = <<>>
    /\ now = [sec |-> EpochSec, ms |-> EpochMs]
    /\ ticks = 0
    /\ last = [op |-> "new"]
    /\ call = NoCall

\* uniqueStringGenerator.generate(length, maxAttempts)
Generate ==
    \E length \in Lengths, maxAttempts \in AttemptBudgets :
      \E oracle \in Oracles(maxAttempts) :
        LET r == generate(used, length, maxAttempts, oracle, now)
        IN  /\ Len(returned) < MaxCalls
            /\ used' = r.used
            /\ returned' = Logged(returned, r, length, maxAttempts)
            /\ last' = [op |-> "generate", length |-> length,
                        maxAttempts |-> maxAttempts, ok |-> r.res.ok,
                        value |-> r.res.val, path |-> r.path,
                        attempts |-> r.attempts]
            /\ UNCHANGED <<now, ticks, call>>

GenerateSessionUniqueString ==
    \E length \in Lengths :
      \E oracle \in Oracles(DefaultMaxAttempts) :
        LET r == generateSessionUniqueString(used, length, oracle, now)
        IN  /\ Len(returned) < MaxCalls
            /\ used' = r.used
            /\ returned' = Logged(returned, r, length, DefaultMaxAttempts)
            /\ last' = [op |-> "generateSessionUniqueString", length |-> length,
                        maxAttempts |-> DefaultMaxAttempts, ok |-> r.res.ok,
                        value |-> r.res.val, path |-> r.path,
                        attempts |-> r.attempts]
            /\ UNCHANGED <<now, ticks, call>>

GenerateMultipleUniqueStrings ==
    \E count \in 0..MaxCount, length \in Lengths :
      \E oracle \in Oracles(DefaultMaxAttempts) :
        LET oracles == [i \in 1..count |-> oracle]   \* every call draws alike
            m == generateMultipleUniqueStrings(used, count, length, oracles, now)
        IN  /\ Len(returned) + count <= MaxCalls
            /\ used' = m.used
            /\ returned' = LoggedAll(returned, m.runs, length, 1)
            /\ last' = [op |-> "generateMultipleUniqueStrings", count |-> count,
                        length |-> length, ok |-> m.ok, results |-> m.results]
            /\ UNCHANGED <<now, ticks, call>>

Reset ==
    /\ used' = reset(used)
    /\ returned' = <<>>
    /\ last' = [op |-> "reset", cleared |-> Cardinality(used)]
    /\ UNCHANGED <<now, ticks, call>>

\* a millisecond passes between two operations
Tick ==
    /\ ticks < MaxTicks
    /\ ticks' = ticks + 1
    /\ now' = IF now.ms = 999 THEN [sec |-> now.sec + 1, ms |-> 0]
              ELSE [sec |-> now.sec, ms |-> now.ms + 1]
    /\ UNCHANGED <<used, returned, last, call>>

Next ==
    \/ Generate
    \/ GenerateSessionUniqueString
    \/ GenerateMultipleUniqueStrings
    \/ Reset
    \/ Tick

Spec == Init /\ [][Next]_vars

(***************************************************************************)
(* The product generator's operations.                                     *)
(***************************************************************************)
NumProductsValues == -1..MaxProducts
VariantCounts == (-1..MaxVariants) \cup {totalPossibleCombinations(catalog) + 1}
HandleIds == {42}
\* priceRange and currencies may be left out (<<>>)
PriceRanges == {<<>>, <<[min |-> 5, max |-> 7]>>, <<[min |-> 80, max |-> 20]>>}
CurrencyLists == {<<>>, << <<"usd", "eur", "dkk">> >>}
CategoryLists ==
    LET Sheets == [name |-> "Sheets", id |-> "pcat_sheets"]
        Bedding == [name |-> "Bedding", id |-> "pcat_bedding"]
        Towels == [name |-> "Towels", id |-> "pcat_towels"]
    IN  {<<>>, <<Towels, Bedding, Sheets>>, <<Towels, Bedding>>, <<Towels>>}
ChannelLists == {<<>>, <<[id |-> "sc_1"], [id |-> "sc_2"]>>}
ShippingProfile == [id |-> "sp_1"]
RandomSeeds == {0, 3}

GenerateSheetProducts ==
    /\ call.op = "none"
    /\ \E numProducts \in NumProductsValues, variantsPerProduct \in VariantCounts,
          handleId \in HandleIds, priceRange \in PriceRanges,
          currencies \in CurrencyLists, categoryResult \in CategoryLists,
          defaultSalesChannel \in ChannelLists,
          shuffle \in Shuffles(totalPossibleCombinations(catalog)),
          seed \in RandomSeeds :
        LET options == [numProducts |-> numProducts, handleId |-> handleId,
                        variantsPerProduct |-> variantsPerProduct,
                        priceRange |-> priceRange, currencies |-> currencies]
            oracle == [stride |-> shuffle.stride, offset |-> shuffle.offset,
                       seed |-> seed]
            r == generateSheetProducts(options, categoryResult, ShippingProfile,
                                       defaultSalesChannel, catalog, oracle)
        IN  call' = [op |-> "generateSheetProducts", options |-> options,
                     categoryResult |-> categoryResult,
                     defaultSalesChannel |-> defaultSalesChannel,
                     ok |-> r.ok, products |-> r.val, err |-> r.err]
    /\ UNCHANGED <<used, returned, now, ticks, last>>

\* the caller is done with the result
Discard ==
    /\ call.op # "none"
    /\ call' = NoCall
    /\ UNCHANGED <<used, returned, now, ticks, last>>

NextProducts ==
    \/ GenerateSheetProducts
    \/ Discard

SpecProducts == Init /\ [][NextProducts]_vars

\* generateSheetProducts for a series of products with at most one variant
\* each, long enough for the sheet types to come round again
GenerateSheetProductSeries ==
    /\ call.op = "none"
    /\ \E numProducts \in 0..MaxSheetSets, variantsPerProduct \in {0, 1},
          handleId \in {7, 42}, defaultSalesChannel \in ChannelLists,
          shuffle \in Shuffles(totalPossibleCombinations(catalog)),
          seed \in RandomSeeds :
        LET options == [numProducts |-> numProducts, handleId |-> handleId,
                        variantsPerProduct |-> variantsPerProduct,
                        priceRange |-> <<>>, currencies |-> <<>>]
            oracle == [stride |-> shuffle.stride, offset |-> shuffle.offset,
                       seed |-> seed]
            r == generateSheetProducts(options, <<>>, ShippingProfile,
                                       defaultSalesChannel, catalog, oracle)
        IN  call' = [op |-> "generateSheetProducts", options |-> options,
                     categoryResult |-> <<>>,
                     defaultSalesChannel |-> defaultSalesChannel,
                     ok |-> r.ok, products |-> r.val, err |-> r.err]
    /\ UNCHANGED <<used, returned, now, ticks, last>>

NextSeries ==
    \/ GenerateSheetProductSeries
    \/ Discard

SpecSeries == Init /\ [][NextSeries]_vars

\* generateSheetProducts called again with the arguments of the last call
GenerateSheetProductsAgain ==
    /\ call.op = "generateSheetProducts"
    /\ \E shuffle \in Shuffles(totalPossibleCombinations(catalog)),
          seed \in RandomSeeds :
        LET oracle == [stride |-> shuffle.stride, offset |-> shuffle.offset,
                       seed |-> seed]
            r == generateSheetProducts(call.options, call.categoryResult,
                                       ShippingProfile, call.defaultSalesChannel,
                                       catalog, oracle)
        IN  call' = [op |-> "generateSheetProductsAgain", options |-> call.options,
                     categoryResult |-> call.categoryResult,
                     defaultSalesChannel |-> call.defaultSalesChannel,
                     first |-> [ok |-> call.ok, products |-> call.products,
                                err |-> call.err],
                     ok |-> r.ok, products |-> r.val, err |-> r.err]
    /\ UNCHANGED <<used, returned, now, ticks, last>>

NextRepeat ==
    \/ GenerateSheetProductSeries
    \/ GenerateSheetProductsAgain
    \/ Discard

SpecRepeat == Init /\ [][NextRepeat]_vars

(***************************************************************************)
(* The stateless helpers, called next to the session generator.            *)
(***************************************************************************)
StringLengths == -1..MaxLength
ByteSeeds == {0, 62, 251}
Charsets ==
    {<<>>, <<"a", "b">>, <<"A","B","C","D","E","F","1","2","3","4","5","6">>}

\* generateRandomString(length, includeUppercase, includeLowercase, includeNumbers)
GenerateRandomString ==
    /\ call.op = "none"
    /\ \E length \in StringLengths, includeUppercase \in BOOLEAN,
          includeLowercase \in BOOLEAN, includeNumbers \in BOOLEAN,
          seed \in RandomSeeds :
        LET r == generateRandomString(length, includeUppercase, includeLowercase,
                                      includeNumbers, seed, 0)
        IN  call' = [op |-> "generateRandomString", length |-> length,
                     includeUppercase |-> includeUppercase,
                     includeLowercase |-> includeLowercase,
                     includeNumbers |-> includeNumbers,
                     ok |-> r.ok, value |-> r.val, err |-> r.err]
    /\ UNCHANGED <<used, returned, now, ticks, last>>

\* generateHexString(length)
GenerateHexString ==
    /\ call.op = "none"
    /\ \E length \in StringLengths, seed \in ByteSeeds :
        LET r == generateHexString(length, seed)
        IN  call' = [op |-> "generateHexString", length |-> length,
                     ok |-> r.ok, value |-> r.val, err |-> r.err]
    /\ UNCHANGED <<used, returned, now, ticks, last>>

\* generateBase64String(length)
GenerateBase64String ==
    /\ call.op = "none"
    /\ \E length \in StringLengths, seed \in ByteSeeds :
        LET r == generateBase64String(length, seed)
        IN  call' = [op |-> "generateBase64String", length |-> length,
                     ok |-> r.ok, value |-> r.val, err |-> r.err]
    /\ UNCHANGED <<used, returned, now, ticks, last>>

\* generateCustomRandomString(length, charset)
GenerateCustomRandomString ==
    /\ call.op = "none"
    /\ \E length \in StringLengths, charset \in Charsets, seed \in RandomSeeds :
        LET r == generateCustomRandomString(length, charset, seed, 0)
        IN  call' = [op |-> "generateCustomRandomString", length |-> length,
                     charset |-> charset,
                     ok |-> r.ok, value |-> r.val, err |-> r.err]
    /\ UNCHANGED <<used, returned, now, ticks, last>>

\* calculateSheetCombinations()
CalculateSheetCombinations ==
    /\ call.op = "none"
    /\ call' = [op |-> "calculateSheetCombinations",
                result |-> calculateSheetCombinations]
    /\ UNCHANGED <<used, returned, now, ticks, last>>

NextStrings ==
    \/ GenerateSessionUniqueString
    \/ GenerateRandomString
    \/ GenerateHexString
    \/ GenerateBase64String
    \/ GenerateCustomRandomString
    \/ CalculateSheetCombinations
    \/ Discard

SpecStrings == Init /\ [][NextStrings]_vars

\* The default generator reached only through the two session functions.
NextSession ==
    \/ GenerateSessionUniqueString
    \/ GenerateMultipleUniqueStrings
    \/ Reset
    \/ Tick

SpecSession == Init /\ [][NextSession]_vars

(***************************************************************************)
(* The generator's claims.                                                 *)
(***************************************************************************)
ReturnedValues == [i \in 1..Len(returned) |-> returned[i].value]

NoFallbackSinceReset == \A i \in 1..Len(returned) : returned[i].path = "loop"

LastIsGenerate == last.op \in {"generate", "generateSessionUniqueString"}

\* <digits>_<alphanumerics>, with at least one digit
IsTimestampQualified(str) ==
    \E u \in 2..Len(str) :
        /\ str[u] = "_"
        /\ \A i \in 1..(u - 1) : IsDigit(str[i])
        /\ \A i \in (u + 1)..Len(str) : str[i] \in Range(ALPHANUMERIC)

\* C1: after N generate calls that returned, with no reset between them and
\* none of them through the fallback, getCount() is N and the N returned
\* strings are pairwise distinct.
C1_CountAndDistinctWithoutFallback ==
    NoFallbackSinceReset =>
        /\ getCount = Len(returned)
        /\ PairwiseDistinct(ReturnedValues)

\* three strings returned, the last one after a collision and a retry
C1_Witness ==
    /\ NoFallbackSinceReset
    /\ Len(returned) = 3
    /\ LastIsGenerate /\ last.ok /\ last.attempts = 2

\* C2: a string returned by generateSessionUniqueString or
\* generateMultipleUniqueStrings is not returned again by either before a
\* reset, on every path, and generateMultipleUniqueStrings(count, length)
\* returns count pairwise distinct strings.
C2_NeverReturnedAgain ==
    /\ PairwiseDistinct(ReturnedValues)
    /\ (last.op = "generateMultipleUniqueStrings" /\ last.ok) =>
            /\ Len(last.results) = last.count
            /\ PairwiseDistinct(last.results)

\* C3: when every candidate of generate(length, maxAttempts), length >= 0,
\* was already issued, generate returns <unixMillis>_<random part> and adds
\* it to the set.
C3_ExhaustionNeverFails ==
    (LastIsGenerate /\ last.path = "fallback" /\ last.length >= 0) =>
        /\ last.ok
        /\ IsTimestampQualified(last.value)
        /\ last.value \in used

\* C4: every string generate(length, maxAttempts) returns has exactly length
\* characters, from the retry loop or from the fallback.
C4_ReturnedLengthIsLength ==
    (LastIsGenerate /\ last.ok) => Len(last.value) = last.length

\* C5: getCount() is the number of distinct strings generate returned since
\* the last reset (or construction), and 0 right after reset().
C5_CountIsDistinctReturned ==
    /\ getCount = Cardinality(Range(ReturnedValues))
    /\ last.op = "reset" => getCount = 0

\* a reset of a generator that had issued strings
C5_Witness == last.op = "reset" /\ last.cleared > 0 /\ getCount = 0

(***************************************************************************)
(* The product generator's claims.                                         *)
(***************************************************************************)
Called == call.op = "generateSheetProducts"

Returned == Called /\ call.ok

Max(a, b) == IF a > b THEN a ELSE b

Total == totalPossibleCombinations(catalog)

\* the values the variants of a product use for an option
SizesUsed(product) ==
    { product.variants[v].options.Size : v \in 1..Len(product.variants) }
ColorsUsed(product) ==
    { product.variants[v].options.Color : v \in 1..Len(product.variants) }
HeightsUsed(product) ==
    { product.variants[v].options.Height : v \in 1..Len(product.variants) }

Width(size) == ParseNumber(Split(size, "x")[1])
Length(size) == ParseNumber(Split(size, "x")[2])
Centimetres(height) == ParseNumber(SubSeq(height, 1, Len(height) - 2))

\* ascending by width, then by length
SizeBefore(a, b) ==
    Width(a) < Width(b) \/ (Width(a) = Width(b) /\ Length(a) < Length(b))

\* C6: for every numProducts >= 0 and every integer variantsPerProduct, a
\* call with a sales channel returns exactly numProducts products, each with
\* exactly min(variantsPerProduct, number of combinations) variants, none
\* when that number is 0 or less.
C6_ProductAndVariantCounts ==
    (Returned /\ call.defaultSalesChannel # <<>> /\ call.options.numProducts >= 0) =>
        /\ Len(call.products) = call.options.numProducts
        /\ \A p \in 1..Len(call.products) :
              Len(call.products[p].variants)
                  = Max(0, Min(call.options.variantsPerProduct, Total))

\* C7: within one generated product no two variants have the same
\* {Size, Color, Height} combination, whatever variantsPerProduct is.
C7_CombinationsDistinctWithinProduct ==
    Returned =>
        \A p \in 1..Len(call.products) :
            \A v, w \in 1..Len(call.products[p].variants) :
                v # w => call.products[p].variants[v].options
                            # call.products[p].variants[w].options

\* more variants asked for than there are combinations: a product holds all
\* of them, and its first combination is in the next product as well
C7_Witness ==
    /\ Returned
    /\ call.options.variantsPerProduct > Total
    /\ Len(call.products) >= 2
    /\ Len(call.products[1].variants) = Total
    /\ \E w \in 1..Len(call.products[2].variants) :
          call.products[2].variants[w].options = call.products[1].variants[1].options

\* C8: the values a product declares for Size, Color and Height are exactly
\* the values its variants use, without repeats, sizes ascending by width
\* then length, colors in lexicographic order, heights ascending by number.
C8_OptionValuesSortedUnique ==
    Returned =>
        \A p \in 1..Len(call.products) :
            LET product == call.products[p]
                sizeValues == product.options[1].values
                colorValues == product.options[2].values
                heightValues == product.options[3].values
            IN  /\ product.options[1].title = "Size"
                /\ product.options[2].title = "Color"
                /\ product.options[3].title = "Height"
                /\ Range(sizeValues) = SizesUsed(product)
                /\ Range(colorValues) = ColorsUsed(product)
                /\ Range(heightValues) = HeightsUsed(product)
                /\ \A a, b \in 1..Len(sizeValues) :
                      a < b => SizeBefore(sizeValues[a], sizeValues[b])
                /\ \A a, b \in 1..Len(colorValues) :
                      a < b => StringLess(colorValues[a], colorValues[b])
                /\ \A a, b \in 1..Len(heightValues) :
                      a < b => Centimetres(heightValues[a]) < Centimetres(heightValues[b])

\* a product whose variants use several sizes, colors and heights, none of
\* the three in ascending order of first appearance
C8_Witness ==
    /\ Returned
    /\ \E p \in 1..Len(call.products) :
          LET variants == call.products[p].variants
          IN  /\ \E v, w \in 1..Len(variants) :
                    v < w /\ SizeBefore(variants[w].options.Size, variants[v].options.Size)
              /\ \E v, w \in 1..Len(variants) :
                    v < w /\ StringLess(variants[w].options.Color, variants[v].options.Color)
              /\ \E v, w \in 1..Len(variants) :
                    v < w /\ Centimetres(variants[w].options.Height)
                                < Centimetres(variants[v].options.Height)

\* the price range and the currencies of a call, defaults applied
PriceRangeOf(options) ==
    IF options.priceRange = <<>> THEN [min |-> 20, max |-> 80] ELSE options.priceRange[1]
CurrenciesOf(options) ==
    IF options.currencies = <<>> THEN <<"eur", "usd">> ELSE options.currencies[1]

\* every variant has one price per currency, in the order of the currencies
PricesFollowCurrencies ==
    \A p \in 1..Len(call.products) :
        \A v \in 1..Len(call.products[p].variants) :
            LET prices == call.products[p].variants[v].prices
                currencies == CurrenciesOf(call.options)
            IN  /\ Len(prices) = Len(currencies)
                /\ \A c \in 1..Len(prices) : prices[c].currency_code = currencies[c]

\* the amounts of all prices of all variants of the call's products
AmountsOf(variant) == { variant.prices[c].amount : c \in 1..Len(variant.prices) }
AmountsIn(product) ==
    UNION { AmountsOf(product.variants[v]) : v \in 1..Len(product.variants) }
Amounts == UNION { AmountsIn(call.products[p]) : p \in 1..Len(call.products) }

Within(amount, priceRange) == priceRange.min <= amount /\ amount <= priceRange.max

WithinOrInverted(amount, priceRange) ==
    IF priceRange.min <= priceRange.max
    THEN Within(amount, priceRange)
    ELSE priceRange.max <= amount /\ amount <= priceRange.min

\* C9 as stated: every variant has exactly one price per requested currency,
\* in the order of the currencies list, and every amount is an integer in
\* [priceRange.min, priceRange.max], for every priceRange supplied.
C9_AmountsWithinEveryRange ==
    Returned =>
        /\ PricesFollowCurrencies
        /\ \A amount \in Amounts :
              amount \in Int /\ Within(amount, PriceRangeOf(call.options))

\* C9 as amended: one price per requested currency, in the order of the
\* currencies list; every amount is an integer in [min, max] when
\* min <= max, and in [max, min] when the range is supplied inverted.
C9_AmountsWithinOrderedRange ==
    Returned =>
        /\ PricesFollowCurrencies
        /\ \A amount \in Amounts :
              amount \in Int /\ WithinOrInverted(amount, PriceRangeOf(call.options))

\* a variant priced in three supplied currencies from the supplied range
\* [5, 7], with two different amounts
C9_Witness ==
    /\ Returned
    /\ call.options.priceRange = <<[min |-> 5, max |-> 7]>>
    /\ call.options.currencies # <<>>
    /\ \E p \in 1..Len(call.products) :
          \E v \in 1..Len(call.products[p].variants) :
              LET prices == call.products[p].variants[v].prices
              IN  /\ Len(prices) = 3
                  /\ \E c, d \in 1..Len(prices) : prices[c].amount # prices[d].amount

\* C10 as stated: a call with an empty list of sales channels fails with an
\* error and returns no product list, for every numProducts and
\* variantsPerProduct.
C10_EmptyChannelsAlwaysFail ==
    (Called /\ call.defaultSalesChannel = <<>>) => ~call.ok /\ call.err # ""

\* C10 as amended: a call with an empty list of sales channels fails with a
\* TypeError and returns no product list when numProducts > 0, for every
\* variantsPerProduct; when numProducts <= 0 it returns the empty list.
C10_EmptyChannelsFailWhenProducts ==
    (Called /\ call.defaultSalesChannel = <<>>) =>
        IF call.options.numProducts > 0
        THEN ~call.ok /\ call.err = "TypeError"
        ELSE call.ok /\ call.products = <<>>

\* products and variants were asked for, with no sales channel: the call failed
C10_Witness ==
    /\ Called
    /\ call.defaultSalesChannel = <<>>
    /\ call.options.numProducts >= 1
    /\ call.options.variantsPerProduct >= 1
    /\ ~call.ok

\* the positions of the categories of the call that have the given name
Named(name) ==
    { i \in 1..Len(call.categoryResult) : call.categoryResult[i].name = name }

FirstOf(positions) == CHOOSE i \in positions : \A j \in positions : i <= j

\* C11: every product's category_ids is the id of the category named
\* "Sheets" if the supplied list has one, otherwise the id of the category
\* named "Bedding" if it has one, otherwise the id of the first supplied
\* category, and empty only when the supplied list is empty; it never holds
\* more than one id.
C11_CategoryIdsByNameThenFirst ==
    Returned =>
        \A p \in 1..Len(call.products) :
            LET ids == call.products[p].category_ids
            IN  /\ Len(ids) <= 1
                /\ ids = <<>> <=> call.categoryResult = <<>>
                /\ ids =
                     IF Named("Sheets") # {}
                     THEN <<call.categoryResult[FirstOf(Named("Sheets"))].id>>
                     ELSE IF Named("Bedding") # {}
                     THEN <<call.categoryResult[FirstOf(Named("Bedding"))].id>>
                     ELSE IF call.categoryResult # <<>>
                     THEN <<call.categoryResult[1].id>>
                     ELSE <<>>

\* no "Sheets" among the categories and "Bedding" not the first of them: the
\* products are filed under "Bedding"
C11_Witness ==
    /\ Returned
    /\ Len(call.products) >= 1
    /\ Named("Sheets") = {}
    /\ Named("Bedding") # {} /\ 1 \notin Named("Bedding")
    /\ call.products[1].category_ids
          = <<call.categoryResult[FirstOf(Named("Bedding"))].id>>

\* the twelve sheet types as they are written in a handle
SheetTypeSlugs ==
    << <<"e","g","y","p","t","i","a","n","-","c","o","t","t","o","n">>,
       <<"b","a","m","b","o","o">>,
       <<"l","i","n","e","n">>,
       <<"p","e","r","c","a","l","e">>,
       <<"s","a","t","e","e","n">>,
       <<"j","e","r","s","e","y">>,
       <<"f","l","a","n","n","e","l">>,
       <<"m","i","c","r","o","f","i","b","e","r">>,
       <<"s","i","l","k">>,
       <<"o","r","g","a","n","i","c","-","c","o","t","t","o","n">>,
       <<"t","e","n","c","e","l">>,
       <<"h","e","m","p">> >>

SheetTypeOf(i) == (i % 12) + 1

\* how many products of the call have the k-th sheet type in their title
TitledWith(k) ==
    LET prefix == sheetTypes[k] \o <<" ","B","e","d"," ","S","h","e","e","t"," ","S","e","t"," ">>
    IN  Cardinality({ p \in 1..Len(call.products) :
                        /\ Len(call.products[p].title) >= Len(prefix)
                        /\ SubSeq(call.products[p].title, 1, Len(prefix)) = prefix })

\* C12: product i (from 0) of a call has sheet type sheetTypes[i mod 12],
\* title "<SheetType> Bed Sheet Set <i+1>" and handle
\* "<sheettype-kebab>-sheet-set-<i+1>-<handleId>"; the numbers of products
\* per sheet type differ by at most 1 and the handles of the call are
\* pairwise distinct.
C12_RoundRobinTitlesAndHandles ==
    Returned =>
        /\ \A p \in 1..Len(call.products) :
              /\ call.products[p].title
                    = sheetTypes[SheetTypeOf(p - 1)] \o <<" ","B","e","d"," ","S","h","e","e","t"," ","S","e","t"," ">> \o NumberToString(p)
              /\ call.products[p].handle
                    = SheetTypeSlugs[SheetTypeOf(p - 1)] \o <<"-","s","h","e","e","t","-","s","e","t","-">>
                        \o NumberToString(p) \o <<"-">>
                        \o NumberToString(call.options.handleId)
        /\ \A k, l \in 1..12 : TitledWith(k) - TitledWith(l) <= 1
        /\ PairwiseDistinct([p \in 1..Len(call.products) |-> call.products[p].handle])

\* thirteen products or more: the thirteenth is an Egyptian Cotton set again,
\* the second such set of the call
C12_Witness ==
    /\ Returned
    /\ Len(call.products) >= 13
    /\ call.options.handleId = 42
    /\ call.products[13].title = <<"E","g","y","p","t","i","a","n"," ","C","o","t","t","o","n"," ","B","e","d"," ","S","h","e","e","t"," ","S","e","t"," ","1","3">>
    /\ call.products[13].handle = <<"e","g","y","p","t","i","a","n","-","c","o","t","t","o","n","-","s","h","e","e","t","-","s","e","t","-","1","3","-","4","2">>
    /\ call.products[2].handle = <<"b","a","m","b","o","o","-","s","h","e","e","t","-","s","e","t","-","2","-","4","2">>
    /\ TitledWith(1) = 2 /\ TitledWith(2) = 1

(***************************************************************************)
(* The stateless helpers' claims.                                          *)
(***************************************************************************)
\* the characters of the classes a generateRandomString call enabled
EnabledClasses ==
    (IF call.includeUppercase THEN Range(UPPERCASE) ELSE {})
        \cup (IF call.includeLowercase THEN Range(LOWERCASE) ELSE {})
        \cup (IF call.includeNumbers THEN Range(DIGITS) ELSE {})

\* C13: for every length >= 0 and flags with at least one class enabled,
\* generateRandomString returns a string of exactly length characters, each
\* of an enabled class.
C13_LengthAndEnabledClasses ==
    (/\ call.op = "generateRandomString"
     /\ call.length >= 0
     /\ call.includeUppercase \/ call.includeLowercase \/ call.includeNumbers) =>
        /\ call.ok
        /\ Len(call.value) = call.length
        /\ Range(call.value) \subseteq EnabledClasses

\* eight characters of the one enabled class, not all the same
C13_Witness ==
    /\ call.op = "generateRandomString"
    /\ call.length = 8
    /\ ~call.includeUppercase /\ call.includeLowercase /\ ~call.includeNumbers
    /\ call.ok
    /\ Len(call.value) = 8
    /\ Cardinality(Range(call.value)) > 1

\* the call was made with one of the three invalid arguments
InvalidArgument ==
    \/ /\ call.op = "generateRandomString"
       /\ ~(call.includeUppercase \/ call.includeLowercase \/ call.includeNumbers)
    \/ /\ call.op = "generateHexString"
       /\ call.length % 2 # 0
    \/ /\ call.op = "generateCustomRandomString"
       /\ Len(call.charset) = 0

\* the call raised an Error and returned no string
FailedFast == ~call.ok /\ call.err = "Error" /\ call.value = <<>>

\* C14: generateRandomString with no class enabled, generateHexString with
\* an odd length and generateCustomRandomString with an empty charset raise
\* an error for every length, return no string and leave the set of the
\* session generator as it was.
C14_InvalidArgumentsFailFast ==
    [][(call.op = "none" /\ InvalidArgument') => (FailedFast' /\ used' = used)]_vars

\* a hex string of odd length asked for after the generator issued a string
C14_Witness ==
    /\ used # {}
    /\ call.op = "generateHexString"
    /\ call.length = 3
    /\ FailedFast

\* C15: for every length >= 0, generateBase64String(length) returns a
\* string of exactly length characters, all of A-Z, a-z, 0-9, "+" and "/",
\* none of them the padding character "=".
C15_Base64LengthAndAlphabet ==
    (call.op = "generateBase64String" /\ call.length >= 0) =>
        /\ call.ok
        /\ Len(call.value) = call.length
        /\ Range(call.value) \subseteq
              Range(UPPERCASE) \cup Range(LOWERCASE) \cup Range(DIGITS) \cup {"+", "/"}
        /\ "=" \notin Range(call.value)

\* five characters kept of the eight that encode four bytes, the last two of
\* the eight being padding; "+" and "/" are among the five
C15_Witness ==
    /\ call.op = "generateBase64String"
    /\ call.length = 5
    /\ call.ok
    /\ Len(call.value) = 5
    /\ {"+", "/"} \subseteq Range(call.value)

\* the catalogs generateSheetProducts builds, in full
fullCatalog == [sizes |-> sizes, colors |-> colors, heights |-> heights]

\* C16: calculateSheetCombinations reports 112 sizes (16 widths x 7
\* lengths), 50 colors, 12 heights and 67,200 combinations, and these are
\* the sizes of the catalogs of sizes, colors and heights of
\* generateSheetProducts and of the list of all combinations it builds.
C16_CombinationCountsMatchCatalogs ==
    call.op = "calculateSheetCombinations" =>
        /\ call.result.widths = 16 /\ call.result.lengths = 7
        /\ call.result.sizes = 112
        /\ call.result.colors = 50
        /\ call.result.heights = 12
        /\ call.result.totalCombinations = 67200
        /\ call.result.sizes = Cardinality(Range(sizes))
        /\ call.result.colors = Cardinality(Range(colors))
        /\ call.result.heights = Cardinality(Range(heights))
        /\ call.result.totalCombinations = totalPossibleCombinations(fullCatalog)
        /\ call.result.totalCombinations = Len(allCombinations(fullCatalog))

\* the report of a call, with its ranges and its middle size example
C16_Witness ==
    /\ call.op = "calculateSheetCombinations"
    /\ call.result.totalCombinations = 67200
    /\ call.result.details.widthRange = <<"7","0","-","2","2","0">>
    /\ call.result.details.lengthRange = <<"1","8","0","-","2","4","0">>
    /\ call.result.details.sizeExamples[2] = <<"1","5","0","x","2","1","0">>
    /\ call.result.details.sizeExamples[3] = sizes[Len(sizes)]

(***************************************************************************)
(* Two calls of generateSheetProducts with the same arguments.             *)
(***************************************************************************)
\* both calls returned products with variants
Repeated ==
    /\ call.op = "generateSheetProductsAgain"
    /\ call.first.ok /\ call.ok
    /\ call.options.numProducts >= 1 /\ call.options.variantsPerProduct >= 1

Handles(products) == [p \in 1..Len(products) |-> products[p].handle]

Skus(products) ==
    [p \in 1..Len(products) |->
        [v \in 1..Len(products[p].variants) |-> products[p].variants[v].sku]]

Prices(products) ==
    [p \in 1..Len(products) |->
        [v \in 1..Len(products[p].variants) |-> products[p].variants[v].prices]]

\* C17 as stated: two calls with identical arguments produce products whose
\* SKUs, prices and handles differ between the two calls.
C17_RepeatedCallsDiffer ==
    Repeated =>
        /\ Skus(call.first.products) # Skus(call.products)
        /\ Prices(call.first.products) # Prices(call.products)
        /\ Handles(call.first.products) # Handles(call.products)

\* C17 as amended: two calls with identical arguments produce as many
\* products, with the same handles; the SKUs and the prices are drawn in
\* each call (and differ when the draws do, as in the witness).
C17_RepeatedCallsShareHandles ==
    Repeated =>
        /\ Len(call.first.products) = Len(call.products)
        /\ Handles(call.first.products) = Handles(call.products)

\* two calls with the same arguments, of two products or more: the SKUs and
\* the prices differ and the handles are the same
C17_Witness ==
    /\ Repeated
    /\ Len(call.products) >= 2
    /\ Skus(call.first.products) # Skus(call.products)
    /\ Prices(call.first.products) # Prices(call.products)
    /\ Handles(call.first.products) = Handles(call.products)

(***************************************************************************)
(* The work of one generate call.                                          *)
(***************************************************************************)
\* a step that is a call of generate, on the instance or through
\* generateSessionUniqueString
GenerateStep ==
    /\ last'.op \in {"generate", "generateSessionUniqueString"}
    /\ last' # last \/ returned' # returned

====
